---- MODULE Spec2Model ----
(***************************************************************************)
(* University & course scraper (scraper.py) and its artifact: the site     *)
(* adapters as operators over an abstract web, main() as a state machine   *)
(* over the persisted workbook.                                            *)
(***************************************************************************)
EXTENDS Integers, Sequences, FiniteSets, TLC

VARIABLES
    artifact,           \* the workbook on disk: [exists, unis, courses]
    pc,                 \* position of main(): "idle", "loop", "merge", "done", "killed"
    idx,                \* 1-based index of the target the loop of main() is at
    universities_data,  \* main(): rows of the new batch
    courses_data,       \* main(): rows of the new batch
    prior,              \* history: the workbook as it was when the run started
    readResult,         \* history: how the read of the prior workbook went
    writes,             \* history: number of times the current run wrote the workbook
    runs,               \* number of runs started so far
    faultsLeft,         \* how many more deviations from the quiet run may happen
    kinds,              \* the kinds of deviation the environment may produce
    probe               \* adapter specification: the last adapter call, its web and its result

vars == <<artifact, pc, idx, universities_data, courses_data, prior, readResult, writes,
          runs, faultsLeft, kinds, probe>>

----------------------------------------------------------------------------
(* Bounds of the model *)

MaxRuns == 2       \* runs of main() over the life of the workbook
MaxFaults == 2     \* failed or blank fetches and failed reads over that life
MaxChanges == 1    \* changed sites and repeated tokens over that life
MaxAgain == 2      \* the slots of a target's courses whose token may be a repeated one
MaxLinks == 7      \* course texts on the pages the adapters are probed with
MaxEdited == 3     \* rows of a sheet an edit of the workbook may touch
MaxWords == 2      \* words of a course name the classifier is called on
MaxHeadings == 2   \* h1 headings, and h2 headings, of a document

----------------------------------------------------------------------------
(* Strings *)

NA == "Not Available"

Max(a, b) == IF a >= b THEN a ELSE b
Min(a, b) == IF a <= b THEN a ELSE b

\* sub in s
Contains(s, sub) ==
    \E k \in 1..(Len(s) - Len(sub) + 1) : SubSeq(s, k, k + Len(sub) - 1) = sub

\* s.startswith(p)
StartsWith(s, p) == Len(p) <= Len(s) /\ SubSeq(s, 1, Len(p)) = p

UpperChars == "ABCDEFGHIJKLMNOPQRSTUVWXYZ"
LowerChars == "abcdefghijklmnopqrstuvwxyz"

LowerChar(c) ==
    IF \E k \in 1..26 : SubSeq(UpperChars, k, k) = c
    THEN LET k == CHOOSE j \in 1..26 : SubSeq(UpperChars, j, j) = c
         IN  SubSeq(LowerChars, k, k)
    ELSE c

RECURSIVE LowerFrom(_, _)
LowerFrom(s, k) ==
    IF k > Len(s) THEN "" ELSE LowerChar(SubSeq(s, k, k)) \o LowerFrom(s, k + 1)

\* s.lower()
Lower(s) == LowerFrom(s, 1)

\* any(kw in s for kw in kws)
AnyIn(kws, s) == \E k \in 1..Len(kws) : Contains(s, kws[k])

Digits == <<"1", "2", "3", "4", "5", "6", "7", "8", "9">>

----------------------------------------------------------------------------
(* guess_discipline *)

discipline_map == <<
    <<"computer", "Computer Science">>, <<"engineering", "Engineering">>,
    <<"law", "Law">>, <<"medicine", "Medicine">>, <<"medic", "Medicine">>,
    <<"business", "Business">>, <<"management", "Management">>, <<"mba", "Management">>,
    <<"pharm", "Pharmacy">>, <<"nurs", "Nursing">>, <<"architect", "Architecture">>,
    <<"math", "Mathematics">>, <<"econom", "Economics">>, <<"dent", "Dentistry">>,
    <<"communi", "Communication">>, <<"history", "History">>, <<"archaeol", "Archaeology">>,
    <<"data science", "Data Science">>, <<"arts", "Arts">>, <<"science", "Sciences">>,
    <<"hotel", "Hotel Management">>, <<"commerce", "Commerce">> >>

RECURSIVE GuessFrom(_, _)
GuessFrom(name_lower, k) ==
    IF k > Len(discipline_map) THEN "General"
    ELSE IF Contains(name_lower, discipline_map[k][1]) THEN discipline_map[k][2]
    ELSE GuessFrom(name_lower, k + 1)

\* the label of the last keyword of the table that occurs, not of the first
RECURSIVE GuessBackFrom(_, _)
GuessBackFrom(name_lower, k) ==
    IF k = 0 THEN "General"
    ELSE IF Contains(name_lower, discipline_map[k][1]) THEN discipline_map[k][2]
    ELSE GuessBackFrom(name_lower, k - 1)

guess_discipline_last_keyword(name) == GuessBackFrom(Lower(name), Len(discipline_map))

guess_discipline(name) == GuessFrom(Lower(name), 1)

----------------------------------------------------------------------------
(* The web: what a fetch of each URL gives at the moment of a run.  A page  *)
(* is the parsed document reduced to what the scraper reads from it.        *)

NoSoup == [kind |-> "none"]

\* A document with nothing in it.
\*   h1, h2       texts of the h1 / h2 elements, in document order
\*   details      what the patterns of extract_details_from_page find in the body text
\*   anchors      the a elements, in document order: [href, text]
\*   tags         the li, h2..h6, p, strong and b elements, in document order: [name, text]
\*   uls          the ul elements, each the li elements under it, each the title
\*                attributes of the a elements under it
\*   firstHeading text of h1#firstHeading, or NoSoup when the element is absent
\*   infobox      rows of table.infobox that have a th and a td: [th, td, href]
EmptyPage ==
    [kind |-> "page", h1 |-> <<>>, h2 |-> <<>>, details |-> <<>>, anchors |-> <<>>,
     tags |-> <<>>, uls |-> <<>>, firstHeading |-> NoSoup, infobox |-> <<>>]

\* get_soup: the parsed page, or None on any failure of the fetch
get_soup(web, url) == IF url \in DOMAIN web THEN web[url] ELSE NoSoup

IsSpace(c) == c \in {" ", "\n", "\t"}

RECURSIVE LStrip(_)
LStrip(s) ==
    IF Len(s) > 0 /\ IsSpace(SubSeq(s, 1, 1)) THEN LStrip(SubSeq(s, 2, Len(s))) ELSE s

RECURSIVE RStrip(_)
RStrip(s) ==
    IF Len(s) > 0 /\ IsSpace(SubSeq(s, Len(s), Len(s)))
    THEN RStrip(SubSeq(s, 1, Len(s) - 1)) ELSE s

\* s.strip()
Strip(s) == RStrip(LStrip(s))

RECURSIVE ReplaceNewlines(_)
\* s.replace('\n', ' ')
ReplaceNewlines(s) ==
    IF Len(s) = 0 THEN ""
    ELSE IF Len(s) = 1 THEN (IF s = "\n" THEN " " ELSE s)
    ELSE LET half == Len(s) \div 2
         IN  ReplaceNewlines(SubSeq(s, 1, half))
             \o ReplaceNewlines(SubSeq(s, half + 1, Len(s)))

\* extract_details_from_page: only the keys that were found
extract_details_from_page(soup) == IF soup = NoSoup THEN <<>> ELSE soup.details

\* extract_course_name: the text of the first h1, else of the first h2, when its
\* length is in 6..119; NoSoup stands for None
extract_course_name(soup) ==
    IF soup = NoSoup THEN NoSoup
    ELSE LET text(hs) == ReplaceNewlines(Strip(hs[1]))
             ok(hs) == Len(hs) > 0 /\ 5 < Len(text(hs)) /\ Len(text(hs)) < 120
         IN  IF ok(soup.h1) THEN [kind |-> "name", text |-> text(soup.h1)]
             ELSE IF ok(soup.h2) THEN [kind |-> "name", text |-> text(soup.h2)]
             ELSE NoSoup

Course(name, level, discipline, duration, fees, eligibility) ==
    ("Course Name" :> name) @@ ("Level" :> level) @@ ("Discipline" :> discipline)
    @@ ("Duration" :> duration) @@ ("Fees" :> fees) @@ ("Eligibility" :> eligibility)

\* dict.get(key, default)
Get(d, key, default) == IF key \in DOMAIN d THEN d[key] ELSE default

scrape_course_page(web, url, fallback_name) ==
    LET soup == get_soup(web, url)
        course == Course(fallback_name, NA, NA, NA, NA, NA)
    IN  IF soup = NoSoup THEN course
        ELSE LET page_name == extract_course_name(soup)
                 name == IF page_name # NoSoup THEN page_name.text ELSE fallback_name
                 details == extract_details_from_page(soup)
             IN  Course(name, Get(details, "Level", NA), guess_discipline(name),
                        Get(details, "Duration", NA), Get(details, "Fees", NA),
                        Get(details, "Eligibility", NA))

\* The scheme and host of a URL: everything before the third "/".
RECURSIVE OriginFrom(_, _, _)
OriginFrom(url, k, slashes) ==
    IF k > Len(url) THEN url
    ELSE IF SubSeq(url, k, k) = "/"
         THEN IF slashes = 2 THEN SubSeq(url, 1, k - 1) ELSE OriginFrom(url, k + 1, slashes + 1)
         ELSE OriginFrom(url, k + 1, slashes)

RECURSIVE LastSlash(_, _)
LastSlash(url, k) ==
    IF k = 0 THEN 0 ELSE IF SubSeq(url, k, k) = "/" THEN k ELSE LastSlash(url, k - 1)

\* urljoin(base, href) for a root-relative or a document-relative href
urljoin(base, href) ==
    IF StartsWith(href, "/") THEN OriginFrom(base, 1, 0) \o href
    ELSE IF Len(OriginFrom(base, 1, 0)) = Len(base) THEN base \o "/" \o href
    ELSE SubSeq(base, 1, LastSlash(base, Len(base))) \o href

FullUrl(base, href) == IF StartsWith(href, "http") THEN href ELSE urljoin(base, href)

\* the loop of discover_and_scrape over the selected links, from link k on
RECURSIVE DiscoverLoop(_, _, _, _, _, _, _)
DiscoverLoop(web, links, k, courses, seen_urls, base_url, max_courses) ==
    IF k > Len(links) \/ Len(courses) >= max_courses THEN courses
    ELSE LET href == links[k].href
             text == Strip(links[k].text)
             full_url == FullUrl(base_url, href)
         IN  IF href = "" \/ Len(text) < 3
             THEN DiscoverLoop(web, links, k + 1, courses, seen_urls, base_url, max_courses)
             ELSE IF full_url \in seen_urls
             THEN DiscoverLoop(web, links, k + 1, courses, seen_urls, base_url, max_courses)
             ELSE DiscoverLoop(web, links, k + 1,
                               Append(courses, scrape_course_page(web, full_url, text)),
                               seen_urls \cup {full_url}, base_url, max_courses)

\* soup.select("a[href*='...']")
SelectHrefContains(soup, part) ==
    SelectSeq(soup.anchors, LAMBDA a : Contains(a.href, part))

discover_and_scrape(web, listing_url, link_part, base_url, max_courses) ==
    LET soup == get_soup(web, listing_url)
    IN  IF soup = NoSoup THEN <<>>
        ELSE DiscoverLoop(web, SelectHrefContains(soup, link_part), 1, <<>>, {},
                          base_url, max_courses)

----------------------------------------------------------------------------
(* pad_courses *)

BatchSize == 5

\* the cap on the records an adapter collects
MaxCourses == 5

\* a padding row with the sentinel in the discipline column too
PlaceholderSentinel(label, n) ==
    Course(label \o " Course " \o Digits[n], NA, NA, NA, NA, NA)

Placeholder(label, n) ==
    Course(label \o " Course " \o Digits[n], NA, "General", NA, NA, NA)

RECURSIVE PadLoop(_, _)
PadLoop(courses, label) ==
    IF Len(courses) < BatchSize
    THEN PadLoop(Append(courses, Placeholder(label, Len(courses) + 1)), label)
    ELSE courses

\* the padding without the slice
pad_courses_unsliced(courses, label) == PadLoop(courses, label)

\* the slice without the padding
pad_courses_unpadded(courses, label) == SubSeq(courses, 1, Min(Len(courses), BatchSize))

pad_courses(courses, label) == SubSeq(PadLoop(courses, label), 1, BatchSize)

----------------------------------------------------------------------------
(* Oxford *)

OxfordListing == "https://www.ox.ac.uk/admissions/undergraduate/courses/course-listing"

\* the records collected before padding
collect_oxford(web) ==
    discover_and_scrape(web, OxfordListing, "/courses/course-listing/",
                        "https://www.ox.ac.uk", MaxCourses)

extract_courses_oxford(web) == pad_courses(collect_oxford(web), "Oxford")

----------------------------------------------------------------------------
(* Cambridge *)

CambridgeListing == "https://www.undergraduate.study.cam.ac.uk/courses/search"

CambridgeKeywords == <<"-ba-", "-bsc-", "-meng-", "-hons", "-mmath", "-msci">>

\* the loop over the a elements of the listing, from element k on;
\* urls[j] is the '_url' key of courses[j]
RECURSIVE CambridgeLoop(_, _, _, _, _)
CambridgeLoop(web, as, k, courses, urls) ==
    IF k > Len(as) \/ Len(courses) >= MaxCourses THEN courses
    ELSE LET href == as[k].href
             text == Strip(as[k].text)
             full_url == FullUrl(CambridgeListing, href)
         IN  IF /\ Contains(href, "/courses/")
                /\ Len(text) > 5
                /\ AnyIn(CambridgeKeywords, Lower(href))
                /\ ~ \E j \in 1..Len(urls) : urls[j] = full_url
             THEN CambridgeLoop(web, as, k + 1,
                                Append(courses, scrape_course_page(web, full_url, text)),
                                Append(urls, full_url))
             ELSE CambridgeLoop(web, as, k + 1, courses, urls)

\* the records collected before padding
collect_cambridge(web) ==
    LET soup == get_soup(web, CambridgeListing)
    IN  IF soup = NoSoup THEN <<>>
        ELSE CambridgeLoop(web, SelectSeq(soup.anchors, LAMBDA a : a.href # ""),
                           1, <<>>, <<>>)

extract_courses_cambridge(web) == pad_courses(collect_cambridge(web), "Cambridge")

----------------------------------------------------------------------------
(* Harvard *)

HarvardWiki == "https://en.wikipedia.org/wiki/Harvard_College"
HarvardFees == "https://college.harvard.edu/financial-aid/how-aid-works/cost-attendance"

HarvardKeywords == <<"science", "math", "engineer", "history", "econom", "computer",
                     "physic", "chemi", "biolog", "literature", "philosophy", "politic",
                     "psycholog", "sociolog", "statistic", "linguist", "music">>

\* the loop over the titled a elements of one li: st is [courses, seen]
RECURSIVE HarvardLinks(_, _, _)
HarvardLinks(titles, k, st) ==
    IF k > Len(titles) THEN st
    ELSE LET title == Strip(titles[k])
             title_lower == Lower(title)
         IN  IF Len(title) < 5 \/ Len(title) > 60 THEN HarvardLinks(titles, k + 1, st)
             ELSE IF /\ AnyIn(HarvardKeywords, title_lower)
                     /\ title \notin st.seen
                     /\ ~ Contains(title_lower, "university")
             THEN HarvardLinks(titles, k + 1,
                     [courses |-> Append(st.courses,
                                    Course("Concentration in " \o title, "Bachelor's",
                                           guess_discipline(title), "4 Years", NA, NA)),
                      seen |-> st.seen \cup {title}])
             ELSE HarvardLinks(titles, k + 1, st)

\* the loop over the li elements of one ul
RECURSIVE HarvardItems(_, _, _)
HarvardItems(lis, k, st) ==
    IF k > Len(lis) \/ Len(st.courses) >= MaxCourses THEN st
    ELSE HarvardItems(lis, k + 1, HarvardLinks(lis[k], 1, st))

\* the loop over the ul elements of the page
RECURSIVE HarvardLists(_, _, _)
HarvardLists(uls, k, st) ==
    IF k > Len(uls) \/ Len(st.courses) >= MaxCourses THEN st
    ELSE HarvardLists(uls, k + 1, HarvardItems(uls[k], 1, st))

\* fill key of every course that has none with details[key], when the page gave one
FillFrom(courses, details, key) ==
    [j \in 1..Len(courses) |->
        IF key \in DOMAIN details /\ courses[j][key] = NA
        THEN [courses[j] EXCEPT ![key] = details[key]]
        ELSE courses[j]]

\* the records collected before padding
collect_harvard(web) ==
    LET wiki_soup == get_soup(web, HarvardWiki)
        found == IF wiki_soup = NoSoup THEN <<>>
                 ELSE HarvardLists(wiki_soup.uls, 1, [courses |-> <<>>, seen |-> {}]).courses
        fee_soup == get_soup(web, HarvardFees)
    IN  IF fee_soup = NoSoup THEN found
        ELSE FillFrom(found, extract_details_from_page(fee_soup), "Fees")

extract_courses_harvard(web) == pad_courses(collect_harvard(web), "Harvard")

----------------------------------------------------------------------------
(* Jamia Millia Islamia *)

JmiFet == "https://www.jmi.ac.in/fet"

JmiExtraUrls == <<"https://www.jmi.ac.in/fdn", "https://www.jmi.ac.in/fae",
                  "https://www.jmi.ac.in/ajkmcrc">>

JmiKeywords == <<"b.tech", "m.tech", "b.sc", "m.sc", "mba", "bds", "b.arch", "diploma",
                 "civil engineering", "mechanical engineering", "electrical engineering",
                 "computer engineering", "electronics", "environmental", "aeronautic">>

JmiTagNames == {"li", "h2", "h3", "h4", "h5", "h6", "p", "strong", "b"}

JmiLevel(text_lower) ==
    IF AnyIn(<<"m.tech", "m.sc", "master", "mba">>, text_lower) THEN "Master's"
    ELSE IF Contains(text_lower, "ph.d") THEN "Doctoral"
    ELSE IF Contains(text_lower, "diploma") THEN "Diploma"
    ELSE "Bachelor's"

\* the loop over the scanned elements of the FET page: st is [courses, seen]
RECURSIVE JmiScan(_, _, _)
JmiScan(tags, k, st) ==
    IF k > Len(tags) THEN st
    ELSE LET text == Strip(tags[k].text)
             text_lower == Lower(text)
         IN  IF Len(text) < 8 \/ Len(text) > 100 THEN JmiScan(tags, k + 1, st)
             ELSE IF ~ AnyIn(JmiKeywords, text_lower) THEN JmiScan(tags, k + 1, st)
             ELSE LET st2 ==
                        IF text \in st.seen THEN st
                        ELSE [courses |-> Append(st.courses,
                                  Course(text, JmiLevel(text_lower), guess_discipline(text),
                                         IF Contains(text_lower, "b.tech")
                                         THEN "4 Years (8 Semesters)" ELSE NA,
                                         NA, NA)),
                              seen |-> st.seen \cup {text}]
                  IN  IF Len(st2.courses) >= MaxCourses THEN st2
                      ELSE JmiScan(tags, k + 1, st2)

\* the loop over the other faculty pages
RECURSIVE JmiExtras(_, _, _)
JmiExtras(web, k, courses) ==
    IF k > Len(JmiExtraUrls) \/ Len(courses) >= MaxCourses THEN courses
    ELSE LET course == scrape_course_page(web, JmiExtraUrls[k], "JMI Programme")
         IN  JmiExtras(web, k + 1,
                       IF course["Course Name"] # "JMI Programme"
                       THEN Append(courses, course) ELSE courses)

\* the records collected before padding
collect_jmi(web) ==
    LET fet_soup == get_soup(web, JmiFet)
        scanned ==
            IF fet_soup = NoSoup THEN <<>>
            ELSE LET tags == SelectSeq(fet_soup.tags, LAMBDA t : t.name \in JmiTagNames)
                     found == JmiScan(tags, 1, [courses |-> <<>>, seen |-> {}]).courses
                     details == extract_details_from_page(fet_soup)
                 IN  FillFrom(FillFrom(found, details, "Fees"), details, "Eligibility")
    IN  JmiExtras(web, 1, scanned)

extract_courses_jmi(web) == pad_courses(collect_jmi(web), "JMI")

----------------------------------------------------------------------------
(* Jamia Hamdard *)

HamdardSchools == "https://www.jamiahamdard.ac.in/new-school313"

HamdardKeywords == <<"b.pharm", "d.pharm", "b.tech", "m.tech", "mba", "bba", "b.com",
                     "b.sc", "m.sc", "ba.ll.b", "ll.m", "ph.d", "bachelor", "master",
                     "diploma", "nursing", "hotel management", "bms">>

HamdardSkip == <<"to offer", "to provide", "to develop", "to use", "ambassador",
                 "research", "vision", "mission">>

HamdardTagNames == {"li", "h3", "h4", "h5", "h6", "strong", "b"}

HamdardLevel(text_lower) ==
    IF AnyIn(<<"m.tech", "m.sc", "master", "mba", "ll.m">>, text_lower) THEN "Master's"
    ELSE IF Contains(text_lower, "ph.d") THEN "Doctoral"
    ELSE "Bachelor's"

\* step 1: the school page links, in document order, each href once
RECURSIVE HamdardSchoolLinks(_, _, _)
HamdardSchoolLinks(as, k, school_links) ==
    IF k > Len(as) THEN school_links
    ELSE LET href == as[k].href
             text == Strip(as[k].text)
             href_lower == Lower(href)
         IN  IF /\ Contains(href_lower, "school-of") \/ Contains(href_lower, "institute")
                /\ Contains(href_lower, "jamiahamdard.ac.in")
                /\ ~ \E j \in 1..Len(school_links) : school_links[j] = href
                /\ Len(text) > 5
             THEN HamdardSchoolLinks(as, k + 1, Append(school_links, href))
             ELSE HamdardSchoolLinks(as, k + 1, school_links)

\* the loop over the scanned elements of one school page
RECURSIVE HamdardScan(_, _, _, _)
HamdardScan(tags, k, page_details, courses) ==
    IF k > Len(tags) \/ Len(courses) >= MaxCourses THEN courses
    ELSE LET text == Strip(tags[k].text)
             text_lower == Lower(text)
         IN  IF /\ 5 < Len(text) /\ Len(text) < 80
                /\ AnyIn(HamdardKeywords, text_lower)
                /\ ~ AnyIn(HamdardSkip, text_lower)
                /\ ~ \E j \in 1..Len(courses) : courses[j]["Course Name"] = text
             THEN HamdardScan(tags, k + 1, page_details,
                     Append(courses,
                            Course(text, HamdardLevel(text_lower), guess_discipline(text),
                                   Get(page_details, "Duration", NA),
                                   Get(page_details, "Fees", NA),
                                   Get(page_details, "Eligibility", NA))))
             ELSE HamdardScan(tags, k + 1, page_details, courses)

\* step 2: the loop over the school pages
RECURSIVE HamdardVisit(_, _, _, _)
HamdardVisit(web, school_links, k, courses) ==
    IF k > Len(school_links) \/ Len(courses) >= MaxCourses THEN courses
    ELSE LET soup == get_soup(web, school_links[k])
         IN  IF soup = NoSoup THEN HamdardVisit(web, school_links, k + 1, courses)
             ELSE HamdardVisit(web, school_links, k + 1,
                     HamdardScan(SelectSeq(soup.tags, LAMBDA t : t.name \in HamdardTagNames),
                                 1, extract_details_from_page(soup), courses))

\* the records collected before padding
collect_jamia_hamdard(web) ==
    LET schools_soup == get_soup(web, HamdardSchools)
        school_links ==
            IF schools_soup = NoSoup THEN <<>>
            ELSE HamdardSchoolLinks(SelectSeq(schools_soup.anchors, LAMBDA a : a.href # ""),
                                    1, <<>>)
    IN  HamdardVisit(web, school_links, 1, <<>>)

extract_courses_jamia_hamdard(web) ==
    pad_courses(collect_jamia_hamdard(web), "Jamia Hamdard")

----------------------------------------------------------------------------
(* fetch_wiki_university_info *)

\* the part of s before its first comma, and the part after it
RECURSIVE CommaAt(_, _)
CommaAt(s, k) ==
    IF k > Len(s) THEN 0 ELSE IF SubSeq(s, k, k) = "," THEN k ELSE CommaAt(s, k + 1)

RECURSIVE SplitComma(_)
\* [p.strip() for p in s.split(',')]
SplitComma(s) ==
    LET c == CommaAt(s, 1)
    IN  IF c = 0 THEN <<Strip(s)>>
        ELSE <<Strip(SubSeq(s, 1, c - 1))>> \o SplitComma(SubSeq(s, c + 1, Len(s)))

Info(name, country, city, website) ==
    ("University Name" :> name) @@ ("Country" :> country) @@ ("City" :> city)
    @@ ("Website" :> website)

\* the loop over the rows of the infobox
RECURSIVE InfoboxRows(_, _, _)
InfoboxRows(rows, k, info) ==
    IF k > Len(rows) THEN info
    ELSE LET header == Lower(Strip(rows[k].th))
             parts == SplitComma(Strip(rows[k].td))
             located ==
                 IF Contains(header, "location") \/ Contains(header, "city")
                 THEN [info EXCEPT !["City"] = parts[1],
                                   !["Country"] = IF Len(parts) >= 2 THEN parts[Len(parts)]
                                                  ELSE info["Country"]]
                 ELSE info
             sited ==
                 IF Contains(header, "website")
                 THEN [located EXCEPT !["Website"] =
                          IF rows[k].href # NoSoup THEN rows[k].href.text
                          ELSE Strip(rows[k].td)]
                 ELSE located
         IN  InfoboxRows(rows, k + 1, sited)

fallbacks == <<
    <<"Harvard", "United States", "Cambridge">>,
    <<"Oxford", "United Kingdom", "Oxford">>,
    <<"Cambridge", "United Kingdom", "Cambridge">>,
    <<"Islamia", "India", "New Delhi">>,
    <<"Hamdard", "India", "New Delhi">> >>

RECURSIVE Fallback(_, _, _)
Fallback(info, wiki_url, k) ==
    IF k > Len(fallbacks) THEN info
    ELSE IF Contains(wiki_url, fallbacks[k][1])
         THEN [info EXCEPT !["Country"] = fallbacks[k][2], !["City"] = fallbacks[k][3]]
         ELSE Fallback(info, wiki_url, k + 1)

\* the empty function stands for the empty dict returned when the fetch fails
fetch_wiki_university_info(web, wiki_url) ==
    LET soup == get_soup(web, wiki_url)
    IN  IF soup = NoSoup THEN <<>>
        ELSE LET titled == Info(IF soup.firstHeading # NoSoup
                                THEN Strip(soup.firstHeading.text) ELSE NA,
                                NA, NA, NA)
                 info == InfoboxRows(soup.infobox, 1, titled)
             IN  IF info["Country"] = NA THEN Fallback(info, wiki_url, 1) ELSE info

----------------------------------------------------------------------------
(* main: the targets and the rows *)

NumTargets == 5

targets == <<
    [wiki |-> "https://en.wikipedia.org/wiki/Jamia_Hamdard",           fetch_courses |-> "jamia_hamdard"],
    [wiki |-> "https://en.wikipedia.org/wiki/Jamia_Millia_Islamia",    fetch_courses |-> "jmi"],
    [wiki |-> "https://en.wikipedia.org/wiki/Harvard_University",      fetch_courses |-> "harvard"],
    [wiki |-> "https://en.wikipedia.org/wiki/University_of_Cambridge", fetch_courses |-> "cambridge"],
    [wiki |-> "https://en.wikipedia.org/wiki/University_of_Oxford",    fetch_courses |-> "oxford"] >>

\* target['fetch_courses']()
FetchCourses(adapter, web) ==
    CASE adapter = "jamia_hamdard" -> extract_courses_jamia_hamdard(web)
      [] adapter = "jmi"           -> extract_courses_jmi(web)
      [] adapter = "harvard"       -> extract_courses_harvard(web)
      [] adapter = "cambridge"     -> extract_courses_cambridge(web)
      [] adapter = "oxford"        -> extract_courses_oxford(web)

\* str(uuid.uuid4())[:8] when it gives a token not handed out before: the one drawn
\* in run r for target t, for the university (k = 0) or for its k-th course
Token(r, t, k) == "id-" \o ToString(r) \o "-" \o ToString(t) \o "-" \o ToString(k)

UniRow(uni_id, uni_info) ==
    [university_id |-> uni_id,
     university_name |-> Get(uni_info, "University Name", NA),
     country |-> Get(uni_info, "Country", NA),
     city |-> Get(uni_info, "City", NA),
     website |-> Get(uni_info, "Website", NA)]

CourseRow(course_id, uni_id, c) ==
    [course_id |-> course_id,
     university_id |-> uni_id,
     course_name |-> Get(c, "Course Name", NA),
     level |-> Get(c, "Level", NA),
     discipline |-> Get(c, "Discipline", NA),
     duration |-> Get(c, "Duration", NA),
     fees |-> Get(c, "Fees", NA),
     eligibility |-> Get(c, "Eligibility", NA)]

----------------------------------------------------------------------------
(* main: the workbook *)

\* a cell pandas holds as missing
NaN == "<NaN>"

\* the cell texts read_excel takes for missing values
NaValues == {"", "#N/A", "#N/A N/A", "#NA", "-1.#IND", "-1.#QNAN", "-NaN", "-nan",
             "1.#IND", "1.#QNAN", "<NA>", "N/A", "NA", "NULL", "NaN", "None", "n/a",
             "nan", "null"}

\* pd.read_excel of one sheet: the rows as written, the missing cells as NaN
read_excel(rows) ==
    [j \in 1..Len(rows) |->
        [f \in DOMAIN rows[j] |-> IF rows[j][f] \in NaValues THEN NaN ELSE rows[j][f]]]

\* the rows 1..j of which no later row, and no row with a key in seen, has the same
\* values in the columns of subset
RECURSIVE KeepLast(_, _, _, _)
KeepLast(rows, subset, j, seen) ==
    IF j = 0 THEN <<>>
    ELSE LET key == [f \in subset |-> rows[j][f]]
         IN  IF key \in seen THEN KeepLast(rows, subset, j - 1, seen)
             ELSE Append(KeepLast(rows, subset, j - 1, seen \cup {key}), rows[j])

\* the rows 1..Len(rows) from j on of which no earlier row has the same values in
\* the columns of subset
RECURSIVE KeepFirst(_, _, _, _)
KeepFirst(rows, subset, j, seen) ==
    IF j > Len(rows) THEN <<>>
    ELSE LET key == [f \in subset |-> rows[j][f]]
         IN  IF key \in seen THEN KeepFirst(rows, subset, j + 1, seen)
             ELSE <<rows[j]>> \o KeepFirst(rows, subset, j + 1, seen \cup {key})

\* df.drop_duplicates(subset=subset, keep='first')
drop_duplicates_keep_first(rows, subset) == KeepFirst(rows, subset, 1, {})

\* df.drop_duplicates(subset=subset, keep='last')
drop_duplicates(rows, subset) == KeepLast(rows, subset, Len(rows), {})

\* df.fillna("Not Available")
fillna(rows) ==
    [j \in 1..Len(rows) |->
        [f \in DOMAIN rows[j] |-> IF rows[j][f] = NaN THEN NA ELSE rows[j][f]]]

----------------------------------------------------------------------------
(* The webs the runs see.  The quiet web serves every page; a deviation     *)
(* changes what one target's pages give.                                    *)

Text(x) == [kind |-> "name", text |-> x]

UniNames == <<"Jamia Hamdard", "Jamia Millia Islamia", "Harvard University",
              "University of Cambridge", "University of Oxford">>

UniLocations == <<"New Delhi, Delhi, India", "New Delhi, India",
                  "Cambridge, Massachusetts, United States", "Cambridge, England",
                  "Oxford, England">>

UniSites == <<"https://jamiahamdard.edu", "https://jmi.ac.in", "https://harvard.edu",
              "https://cam.ac.uk", "https://ox.ac.uk">>

\* texts each site may show for its courses, as its adapter looks for them
CourseTexts == <<
    <<"B.Pharm Pharmacy", "D.Pharm Pharmacy", "MBA Health Management", "B.Sc Nursing",
      "Diploma in Hotel Management", "M.Tech Computer Science", "BBA Programme",
      "LL.M Programme", "Ph.D in Pharmacology">>,
    <<"B.Tech Civil Engineering", "M.Tech Environmental Science", "B.Arch Architecture",
      "Diploma in Electronics", "B.Tech Computer Engineering", "MBA Programme",
      "M.Sc Electronics", "B.Tech Mechanical Engineering", "Ph.D in Civil Engineering">>,
    <<"Computer science", "Economics", "History", "Mathematics", "Physics", "Chemistry",
      "Philosophy", "Statistics", "Linguistics">>,
    <<"Architecture", "Economics", "History", "Mathematics", "Engineering", "Medicine",
      "Philosophy", "Chemistry", "Geography">>,
    <<"Law (Jurisprudence)", "Medicine", "History", "Computer Science", "Mathematics",
      "Chemistry", "Philosophy", "Geography", "Music">> >>

\* what the reference page of a target gives: the usual page; one whose website
\* cell is empty; one whose heading is empty; nothing (the fetch fails)
WikiVariants == {"ok", "blank", "noname", "fail"}

\* what the site of a target gives: the usual pages; all courses but the first
\* renamed; the first course shown twice; an empty eligibility text; no page but
\* the listing; nothing (the fetches fail)
PageVariants == {"same", "renamed", "twice", "blank", "nopages", "fail"}

\* the course texts target t's site shows: the usual ones; all but the first renamed;
\* the first one shown twice
ShownTexts(t, pv) ==
    [k \in 1..5 |->
        IF pv = "renamed" /\ k > 1 THEN CourseTexts[t][k] \o " (New)"
        ELSE IF pv = "twice" /\ k = 2 THEN CourseTexts[t][1]
        ELSE CourseTexts[t][k]]

WikiPage(t, wv) ==
    [EmptyPage EXCEPT
        !.firstHeading = IF wv = "noname" THEN Text(" ") ELSE Text(UniNames[t]),
        !.infobox = << [th |-> "Location", td |-> UniLocations[t], href |-> NoSoup],
                       IF wv = "blank"
                       THEN [th |-> "Website", td |-> " ", href |-> NoSoup]
                       ELSE [th |-> "Website", td |-> "site", href |-> Text(UniSites[t])] >>]

Items(texts) == [k \in 1..Len(texts) |-> [name |-> "li", text |-> texts[k]]]

HamdardSchool == "https://www.jamiahamdard.ac.in/school-of-pharmacy"

CambridgePath(k) == "/courses/c" \o Digits[k] \o "-ba-hons"
OxfordPath(k) == "/courses/course-listing/c" \o Digits[k]

\* what the patterns find in a page
Details(found, pv) == IF pv = "blank" THEN found @@ ("Eligibility" :> "") ELSE found

\* the pages the adapter of target t starts from
ListingPages(t, texts, pv) ==
    CASE t = 1 ->
           (HamdardSchools :> [EmptyPage EXCEPT !.anchors =
                << [href |-> HamdardSchool, text |-> "School of Pharmacy"] >>])
      [] t = 2 ->
           (JmiFet :> [EmptyPage EXCEPT !.tags = Items(texts), !.details = Details(<<>>, pv)])
      [] t = 3 ->
           (HarvardWiki :> [EmptyPage EXCEPT !.uls = << [k \in 1..5 |-> <<texts[k]>>] >>])
      [] t = 4 ->
           (CambridgeListing :> [EmptyPage EXCEPT !.anchors =
                [k \in 1..5 |-> [href |-> CambridgePath(k), text |-> texts[k]]]])
      [] t = 5 ->
           (OxfordListing :> [EmptyPage EXCEPT !.anchors =
                [k \in 1..5 |-> [href |-> OxfordPath(k), text |-> texts[k]]]])

CoursePage(text, pv) ==
    [EmptyPage EXCEPT !.h1 = <<text>>,
                      !.details = Details(("Duration" :> "3 Years")
                                          @@ ("Level" :> "Undergraduate"), pv)]

\* the pages the adapter of target t goes on to
FurtherPages(t, texts, pv) ==
    CASE t = 1 ->
           (HamdardSchool :> [EmptyPage EXCEPT !.tags = Items(texts),
                                               !.details = Details(("Duration" :> "4 Years"), pv)])
      [] t = 2 -> <<>>
      [] t = 3 ->
           (HarvardFees :> [EmptyPage EXCEPT !.details = ("Fees" :> "$59,320")])
      [] t = 4 ->
           [u \in {"https://www.undergraduate.study.cam.ac.uk" \o CambridgePath(k) : k \in 1..5} |->
               CoursePage(texts[CHOOSE k \in 1..5 :
                   u = "https://www.undergraduate.study.cam.ac.uk" \o CambridgePath(k)], pv)]
      [] t = 5 ->
           [u \in {"https://www.ox.ac.uk" \o OxfordPath(k) : k \in 1..5} |->
               CoursePage(texts[CHOOSE k \in 1..5 : u = "https://www.ox.ac.uk" \o OxfordPath(k)],
                          pv)]

SitePages(t, pv) ==
    ListingPages(t, ShownTexts(t, pv), pv)
    @@ (IF pv = "nopages" THEN <<>> ELSE FurtherPages(t, ShownTexts(t, pv), pv))

\* the web as target t's part of a run sees it
Web(t, wv, pv) ==
    (IF wv = "fail" THEN <<>> ELSE (targets[t].wiki :> WikiPage(t, wv)))
    @@ (IF pv = "fail" THEN <<>> ELSE SitePages(t, pv))

\* what the resolver and the adapter of target t give on each of these webs
WikiResults ==
    [t \in 1..NumTargets |-> [wv \in WikiVariants |->
        fetch_wiki_university_info(Web(t, wv, "same"), targets[t].wiki)]]

SiteResults ==
    [t \in 1..NumTargets |-> [pv \in PageVariants |->
        FetchCourses(targets[t].fetch_courses, Web(t, "ok", pv))]]

----------------------------------------------------------------------------
(* main as a state machine *)

NoFile == [exists |-> FALSE, unis |-> <<>>, courses |-> <<>>]

\* the kinds of deviation from the quiet run
FetchKinds == {"wiki_blank", "wiki_noname", "wiki_fail", "read_fails"}
ChangeKinds == {"site_renamed", "site_twice", "site_blank", "uni_token", "course_token"}
FailureKinds == {"wiki_fail", "site_fail", "site_nopages"}

InitWith(budget, allowed, started) ==
    /\ artifact = NoFile
    /\ pc = "idle"
    /\ idx = 1
    /\ universities_data = <<>>
    /\ courses_data = <<>>
    /\ prior = NoFile
    /\ readResult = "none"
    /\ writes = 0
    /\ runs = started
    /\ faultsLeft = budget
    /\ kinds = allowed
    /\ probe = [adapter |-> "none", web |-> <<>>, found |-> <<>>, result |-> <<>>]

\* main() is started: lines 538-539
StartRun ==
    /\ pc \in {"idle", "done", "killed"}
    /\ runs < MaxRuns
    /\ runs' = runs + 1
    /\ pc' = "loop"
    /\ idx' = 1
    /\ universities_data' = <<>>
    /\ courses_data' = <<>>
    /\ prior' = artifact
    /\ readResult' = "none"
    /\ writes' = 0
    /\ UNCHANGED <<artifact, faultsLeft, kinds, probe>>

\* the deviations a choice amounts to: the kinds named by the set of pairs
\* <<kind, happens>> in which happens holds
Deviations(pairs) == {p[1] : p \in {q \in pairs : q[2]}}

\* the tokens uuid4 may repeat for the university at hand: the one of the workbook's
\* row of the same name, and those of the batch so far
UniTokens(name) ==
    {artifact.unis[j].university_id :
        j \in {l \in 1..Len(artifact.unis) : artifact.unis[l].university_name = name}}
    \cup {universities_data[j].university_id : j \in 1..Len(universities_data)}

\* the course token drawn last, if any
LastCourseToken ==
    IF Len(courses_data) > 0 THEN {courses_data[Len(courses_data)].course_id}
    ELSE IF Len(artifact.courses) > 0
         THEN {artifact.courses[Len(artifact.courses)].course_id}
         ELSE {}

\* the course rows of one target: ids[k] labels the k-th record the adapter gave
NewCourseRows(uni_id, courses, ids) ==
    [k \in 1..Len(courses) |-> CourseRow(ids[k], uni_id, courses[k])]

\* the tokens of one target's courses: fresh ones, but the one at slot `again`
\* (if not 0) repeats the course token drawn before it
RECURSIVE CourseTokens(_, _, _, _)
CourseTokens(k, count, again, last) ==
    IF k > count THEN <<>>
    ELSE IF k = again THEN <<last>> \o CourseTokens(k + 1, count, again, last)
    ELSE <<Token(runs, idx, k)>> \o CourseTokens(k + 1, count, again, Token(runs, idx, k))

\* one pass of the loop over the targets: lines 546-574
ProcessTarget ==
    /\ pc = "loop"
    /\ \E wv \in WikiVariants, pv \in PageVariants, again \in 0..MaxAgain :
       \E repeated \in {"fresh"} \cup UniTokens(UniNames[idx]) :
        LET target == targets[idx]
            uni_info == WikiResults[idx][wv]
            uni_id == IF repeated = "fresh" THEN Token(runs, idx, 0) ELSE repeated
            courses == SiteResults[idx][pv]
            last == IF again = 1 THEN CHOOSE x \in LastCourseToken : TRUE ELSE ""
            ids == CourseTokens(1, Len(courses), again, last)
            deviations == Deviations({<<"wiki_" \o wv, wv # "ok">>,
                                      <<"site_" \o pv, pv # "same">>,
                                      <<"uni_token", repeated # "fresh">>,
                                      <<"course_token", again # 0>>})
        IN  /\ deviations \subseteq kinds
            /\ Cardinality(deviations) <= faultsLeft
            /\ again = 1 => LastCourseToken # {}
            /\ faultsLeft' = faultsLeft - Cardinality(deviations)
            /\ universities_data' = Append(universities_data, UniRow(uni_id, uni_info))
            /\ courses_data' = courses_data \o NewCourseRows(uni_id, courses, ids)
    /\ idx' = idx + 1
    /\ pc' = IF idx = NumTargets THEN "merge" ELSE "loop"
    /\ UNCHANGED <<artifact, prior, readResult, writes, runs, kinds, probe>>

\* how the read of the workbook may go: lines 582-595
ReadResults == IF artifact.exists THEN {"ok", "uni_fails", "courses_fails"} ELSE {"absent"}

\* a load that keeps the sheets it could read when the other could not be read
ConcatenationOfReadSheets(existing, new, rr) ==
    IF rr \in {"ok", "courses_fails"} THEN read_excel(existing) \o new ELSE new

\* the frames main() deduplicates: lines 577-595
Concatenation(existing, new, rr) == IF rr = "ok" THEN read_excel(existing) \o new ELSE new

\* lines 598, 600
MergedUniversities(rows) == fillna(drop_duplicates(rows, {"university_name"}))

\* lines 599, 601
MergedCourses(rows) == fillna(drop_duplicates(rows, {"course_name", "university_id"}))

\* load, concatenate, deduplicate, fill and write: lines 577-605
MergeAndPersist ==
    /\ pc = "merge"
    /\ \E rr \in ReadResults :
        LET deviations == Deviations({<<"read_fails", rr \in {"uni_fails", "courses_fails"}>>})
            df_uni == MergedUniversities(Concatenation(artifact.unis, universities_data, rr))
            df_courses == MergedCourses(Concatenation(artifact.courses, courses_data, rr))
        IN  /\ deviations \subseteq kinds
            /\ Cardinality(deviations) <= faultsLeft
            /\ faultsLeft' = faultsLeft - Cardinality(deviations)
            /\ readResult' = rr
            /\ artifact' = [exists |-> TRUE, unis |-> df_uni, courses |-> df_courses]
    /\ writes' = writes + 1
    /\ pc' = "done"
    /\ UNCHANGED <<idx, universities_data, courses_data, prior, runs, kinds, probe>>

\* a stop that writes what the run has gathered so far
InterruptFlushing ==
    /\ pc \in {"loop", "merge"}
    /\ pc' = "killed"
    /\ artifact' = [exists |-> TRUE,
                    unis |-> artifact.unis \o universities_data,
                    courses |-> artifact.courses \o courses_data]
    /\ universities_data' = <<>>
    /\ courses_data' = <<>>
    /\ idx' = 1
    /\ readResult' = "none"
    /\ UNCHANGED <<prior, writes, runs, faultsLeft, kinds, probe>>

\* the process is stopped from outside before the write begins; what it held
\* in memory is gone
Interrupt ==
    /\ pc \in {"loop", "merge"}
    /\ pc' = "killed"
    /\ universities_data' = <<>>
    /\ courses_data' = <<>>
    /\ idx' = 1
    /\ readResult' = "none"
    /\ UNCHANGED <<artifact, prior, writes, runs, faultsLeft, kinds, probe>>

Next == StartRun \/ ProcessTarget \/ MergeAndPersist \/ Interrupt

\* runs over a web whose fetches and reads may fail
Init == InitWith(MaxFaults, FetchKinds, 0)
Spec == Init /\ [][Next]_vars

\* runs over sites that change and tokens that repeat
InitSites == InitWith(MaxChanges, ChangeKinds, 0)
SpecSites == InitSites /\ [][Next]_vars

\* one run under every pattern of failed fetches
InitOneRun == InitWith(2 * NumTargets, FailureKinds, MaxRuns - 1)
SpecOneRun == InitOneRun /\ [][Next]_vars

----------------------------------------------------------------------------
(* The adapters on their own: each is called on webs that show from no       *)
(* course text to more than the adapter keeps, with and without elements it  *)
(* must pass over, and with the pages behind the listing present or not.     *)

Label(adapter) ==
    CASE adapter = "jamia_hamdard" -> "Jamia Hamdard"
      [] adapter = "jmi"           -> "JMI"
      [] adapter = "harvard"       -> "Harvard"
      [] adapter = "cambridge"     -> "Cambridge"
      [] adapter = "oxford"        -> "Oxford"

\* the page the adapter starts from
ListingUrl(adapter) ==
    CASE adapter = "jamia_hamdard" -> HamdardSchools
      [] adapter = "jmi"           -> JmiFet
      [] adapter = "harvard"       -> HarvardWiki
      [] adapter = "cambridge"     -> CambridgeListing
      [] adapter = "oxford"        -> OxfordListing

Collect(adapter, web) ==
    CASE adapter = "jamia_hamdard" -> collect_jamia_hamdard(web)
      [] adapter = "jmi"           -> collect_jmi(web)
      [] adapter = "harvard"       -> collect_harvard(web)
      [] adapter = "cambridge"     -> collect_cambridge(web)
      [] adapter = "oxford"        -> collect_oxford(web)

\* the first n course texts of target t
FirstTexts(t, n) == [k \in 1..n |-> CourseTexts[t][k]]

\* xs with ys put in after its first element
PutIn(xs, ys) == IF Len(xs) = 0 THEN ys ELSE <<xs[1]>> \o ys \o SubSeq(xs, 2, Len(xs))

LinkWebs(listing, origin, path(_), t, passed_over) ==
    { (listing :> [EmptyPage EXCEPT !.anchors =
            LET links == [k \in 1..n |-> [href |-> path(k), text |-> CourseTexts[t][k]]]
            IN  IF junk THEN PutIn(links, passed_over \o SubSeq(links, 1, Min(n, 1))) ELSE links])
      @@ (IF pages
          THEN [u \in {origin \o path(k) : k \in 1..n} |->
                   CoursePage(CourseTexts[t][CHOOSE k \in 1..n : u = origin \o path(k)], "same")]
          ELSE <<>>) :
        n \in 0..MaxLinks, junk \in BOOLEAN, pages \in BOOLEAN }
    \cup {<<>>}

OxfordWebs ==
    LinkWebs(OxfordListing, "https://www.ox.ac.uk", OxfordPath, 5,
             << [href |-> "/courses/course-listing/x", text |-> "Go"],
                [href |-> "/admissions", text |-> "Admissions"] >>)

CambridgeWebs ==
    LinkWebs(CambridgeListing, "https://www.undergraduate.study.cam.ac.uk", CambridgePath, 4,
             << [href |-> "/courses/x-ba-hons", text |-> "Law"],
                [href |-> "/courses/overview", text |-> "Overview of courses"] >>)

\* n titles, one to a list item, all in one list item, or two to a list item
Grouped(titles, grouping) ==
    CASE grouping = "single"   -> << [k \in 1..Len(titles) |-> <<titles[k]>>] >>
      [] grouping = "together" -> << <<titles>> >>
      [] grouping = "pairs"    ->
            << [k \in 1..((Len(titles) + 1) \div 2) |->
                   SubSeq(titles, 2 * k - 1, Min(2 * k, Len(titles)))] >>

HarvardWebs ==
    { (HarvardWiki :> [EmptyPage EXCEPT !.uls =
            Grouped(IF junk
                    THEN PutIn(FirstTexts(3, n),
                               <<"Harvard University", "Art">> \o FirstTexts(3, Min(n, 1)))
                    ELSE FirstTexts(3, n), grouping)])
      @@ (CASE fees = "found" -> (HarvardFees :> [EmptyPage EXCEPT !.details = ("Fees" :> "$59,320")])
            [] fees = "none"  -> (HarvardFees :> EmptyPage)
            [] fees = "fail"  -> <<>>) :
        n \in 0..MaxLinks, junk \in BOOLEAN, grouping \in {"single", "together", "pairs"},
        fees \in {"found", "none", "fail"} }
    \cup {<<>>, (HarvardFees :> [EmptyPage EXCEPT !.details = ("Fees" :> "$59,320")])}

\* what each of the other faculty pages gives: nothing, a page with a heading, a
\* page without one
JmiExtraWebs ==
    { [u \in {JmiExtraUrls[k] : k \in {j \in 1..3 : gives[j] # "fail"}} |->
          LET k == CHOOSE j \in 1..3 : JmiExtraUrls[j] = u
          IN  IF gives[k] = "titled"
              THEN CoursePage("Faculty of " \o CourseTexts[4][k], "same")
              ELSE EmptyPage] :
        gives \in [1..3 -> {"fail", "titled", "untitled"}] }

JmiWebs ==
    { fet @@ extra :
        fet \in { (JmiFet :> [EmptyPage EXCEPT
                      !.tags = Items(IF junk
                                     THEN PutIn(FirstTexts(2, n),
                                                <<"About the faculty", "MBA">>
                                                \o FirstTexts(2, Min(n, 1)))
                                     ELSE FirstTexts(2, n)),
                      !.details = IF junk THEN ("Fees" :> "$1,200") ELSE <<>>]) :
                  n \in 0..MaxLinks, junk \in BOOLEAN } \cup {<<>>},
        extra \in JmiExtraWebs }

HamdardSchoolB == "https://www.jamiahamdard.ac.in/institute-of-nursing"

\* the course texts on one school page, on two, or on the second of two whose
\* first cannot be fetched
HamdardWebs ==
    { LET texts == IF junk
                   THEN PutIn(FirstTexts(1, n),
                              <<"Our mission is to offer diploma study", "Staff">>
                              \o FirstTexts(1, Min(n, 1)))
                   ELSE FirstTexts(1, n)
          cut == Min(2, Len(texts))
          page(ts) == [EmptyPage EXCEPT !.tags = Items(ts),
                                        !.details = ("Duration" :> "4 Years")]
      IN  (HamdardSchools :> [EmptyPage EXCEPT !.anchors =
              << [href |-> HamdardSchool, text |-> "School of Pharmacy"],
                 [href |-> "https://www.jamiahamdard.ac.in/contact", text |-> "Contact us"],
                 [href |-> HamdardSchoolB, text |-> "Institute of Nursing"] >>])
          @@ (CASE layout = "one"   -> (HamdardSchool :> page(texts))
                [] layout = "two"   -> (HamdardSchool :> page(SubSeq(texts, 1, cut)))
                                       @@ (HamdardSchoolB :> page(texts))
                [] layout = "second" -> (HamdardSchoolB :> page(texts))) :
        n \in 0..MaxLinks, junk \in BOOLEAN, layout \in {"one", "two", "second"} }
    \cup {<<>>}

Call(adapter, web) ==
    /\ probe.adapter = "none"
    /\ probe' = [adapter |-> adapter, web |-> web, found |-> Collect(adapter, web),
                 result |-> FetchCourses(adapter, web)]
    /\ UNCHANGED <<artifact, pc, idx, universities_data, courses_data, prior, readResult,
                   writes, runs, faultsLeft, kinds>>

CallOxford == \E web \in OxfordWebs : Call("oxford", web)
CallCambridge == \E web \in CambridgeWebs : Call("cambridge", web)
CallHarvard == \E web \in HarvardWebs : Call("harvard", web)
CallJmi == \E web \in JmiWebs : Call("jmi", web)
CallJamiaHamdard == \E web \in HamdardWebs : Call("jamia_hamdard", web)

NextAdapters == CallOxford \/ CallCambridge \/ CallHarvard \/ CallJmi \/ CallJamiaHamdard

InitAdapters == InitWith(0, {}, MaxRuns)
SpecAdapters == InitAdapters /\ [][NextAdapters]_vars

----------------------------------------------------------------------------
(* Properties of the adapters (SpecAdapters)                                 *)

\* C2 (fixed batch size): whatever the adapter was called on, it returns
\* exactly 5 records: the first min(found, 5) are the records it found, in the
\* order it found them, and the others are the placeholders of pad_courses.
C2_FixedBatchSize ==
    probe.adapter # "none" =>
        LET kept == Min(Len(probe.found), 5)
        IN  /\ Len(probe.result) = 5
            /\ \A k \in 1..kept : probe.result[k] = probe.found[k]
            /\ \A k \in (kept + 1)..5 :
                   probe.result[k] = Placeholder(Label(probe.adapter), k)

\* the Harvard adapter found more than 5 records, two of them in one list item
C2_Witness ==
    /\ probe.adapter = "harvard"
    /\ Len(probe.found) > 5
    /\ \E ul \in DOMAIN get_soup(probe.web, HarvardWiki).uls :
         \E li \in DOMAIN get_soup(probe.web, HarvardWiki).uls[ul] :
            Len(get_soup(probe.web, HarvardWiki).uls[ul][li]) > 1

ListingFailed == 
    /\ probe.adapter # "none"
    /\ get_soup(probe.web, ListingUrl(probe.adapter)) = NoSoup

\* the row named '<label> Course k' with discipline 'General' and the
\* sentinel in the four other columns
IsPlaceholderRow(c, label, k) ==
    /\ c["Course Name"] = label \o " Course " \o ToString(k)
    /\ c["Discipline"] = "General"
    /\ \A key \in {"Level", "Duration", "Fees", "Eligibility"} : c[key] = "Not Available"

\* C8 as stated: when the listing page cannot be fetched the adapter found
\* nothing and returns the 5 placeholder rows.
C8_AllPlaceholders ==
    ListingFailed =>
        /\ probe.found = <<>>
        /\ Len(probe.result) = 5
        /\ \A k \in 1..5 : IsPlaceholderRow(probe.result[k], Label(probe.adapter), k)

\* the records the JMI adapter takes from the other faculty pages
JmiSupplement(web) ==
    SelectSeq([k \in 1..Len(JmiExtraUrls) |->
                  scrape_course_page(web, JmiExtraUrls[k], "JMI Programme")],
              LAMBDA c : c["Course Name"] # "JMI Programme")

\* C8 (unreachable listing page): when the listing page cannot be fetched the
\* adapter returns 5 rows; for Oxford, Cambridge, Harvard and Jamia Hamdard
\* nothing was found and all 5 are placeholder rows; for JMI the rows found
\* are those of the other faculty pages whose heading gives a title, and
\* the rows after them are placeholder rows.
C8_UnreachableListing ==
    ListingFailed =>
        LET supplement == IF probe.adapter = "jmi" THEN JmiSupplement(probe.web) ELSE <<>>
        IN  /\ probe.found = supplement
            /\ Len(probe.result) = 5
            /\ \A k \in 1..Len(supplement) : probe.result[k] = supplement[k]
            /\ \A k \in (Len(supplement) + 1)..5 :
                   IsPlaceholderRow(probe.result[k], Label(probe.adapter), k)

\* the JMI adapter could not fetch its listing page and took a row from another
\* faculty page
C8_Witness == ListingFailed /\ probe.adapter = "jmi" /\ Len(probe.found) > 0

----------------------------------------------------------------------------
(* Properties of the runs of main                                            *)

\* the frames the run at hand deduplicated, once it has written
ConcatUniversities == Concatenation(prior.unis, universities_data, readResult)
ConcatCourses == Concatenation(prior.courses, courses_data, readResult)

\* C10 (write once, at the end): a run that has not reached the end of its
\* write has written nothing and the workbook is as it was when the run
\* started, also after the run is stopped from outside; a run that has written
\* has written once, after all five targets were processed, and what it wrote
\* is the deduplicated concatenation.
C10_WriteOnceAtEnd ==
    /\ pc # "done" => writes = 0 /\ artifact = prior
    /\ pc = "done" =>
        /\ writes = 1
        /\ idx = NumTargets + 1
        /\ Len(universities_data) = NumTargets
        /\ artifact.unis = MergedUniversities(ConcatUniversities)
        /\ artifact.courses = MergedCourses(ConcatCourses)

\* a run was stopped from outside while a workbook of an earlier run existed
C10_Witness == pc = "killed" /\ prior.exists /\ runs > 1

\* C9 (the workbook cannot be read): when the workbook exists and the read of
\* one of its sheets fails, the Universities sheet or, after that one was read,
\* the Courses sheet, the run writes all the same, and both sheets it writes are
\* those it writes from the new batch when there is no workbook; no row of the
\* workbook is kept.
C9_ReadFailure ==
    (pc = "done" /\ readResult \in {"uni_fails", "courses_fails"}) =>
        /\ prior.exists
        /\ artifact.exists
        /\ artifact.unis = MergedUniversities(Concatenation(<<>>, universities_data, "absent"))
        /\ artifact.courses = MergedCourses(Concatenation(<<>>, courses_data, "absent"))
        /\ \A j \in DOMAIN artifact.unis :
              \E l \in DOMAIN universities_data :
                 artifact.unis[j].university_id = universities_data[l].university_id
        /\ \A j \in DOMAIN artifact.courses :
              \E l \in DOMAIN courses_data :
                 artifact.courses[j].course_id = courses_data[l].course_id

\* the Universities sheet of a workbook with rows was read, its Courses sheet
\* was not, and the run has written
C9_Witness ==
    /\ pc = "done"
    /\ readResult = "courses_fails"
    /\ Len(prior.unis) > 0
    /\ Len(prior.courses) > 0

\* C1 (referential integrity): every row of the written Courses sheet has the
\* university_id of a row of the written Universities sheet.
C1_ReferentialIntegrity ==
    \A i \in DOMAIN artifact.courses :
       \E j \in DOMAIN artifact.unis :
          artifact.unis[j].university_id = artifact.courses[i].university_id

\* the positions of rows of which no later row has the same values in the
\* columns of subset
LatestOfGroup(rows, subset) ==
    {i \in DOMAIN rows :
        \A j \in (i + 1)..Len(rows) : \E f \in subset : rows[j][f] # rows[i][f]}

\* the positions of rows whose values in the columns of subset are those of
\* another row too
Shared(rows, subset) ==
    {i \in DOMAIN rows :
        \E j \in DOMAIN rows : j # i /\ \A f \in subset : rows[j][f] = rows[i][f]}

\* the positions in out of the rows with the values of row in the columns of subset
Matches(out, row, subset) ==
    {k \in DOMAIN out : \A f \in subset : out[k][f] = row[f]}

\* the row with 'Not Available' in its missing cells
Filled(row) == [f \in DOMAIN row |-> IF row[f] = NaN THEN NA ELSE row[f]]

\* out is the rows of rows at the positions in keep, in their order, each
\* with its missing cells filled
IsSelection(out, rows, keep) ==
    LET positions == SelectSeq([i \in 1..Len(rows) |-> i], LAMBDA i : i \in keep)
    IN  /\ Len(out) = Len(positions)
        /\ \A k \in DOMAIN out : out[k] = Filled(rows[positions[k]])

\* the statement about the rows of rows as it was made: of the rows sharing
\* their values in subset exactly one is in out, equal to the latest of them,
\* and the rows sharing them with no row are in out unchanged, in their order
AsStated(out, rows, subset) ==
    /\ \A i \in Shared(rows, subset) \cap LatestOfGroup(rows, subset) :
          /\ Cardinality(Matches(out, rows[i], subset)) = 1
          /\ \A k \in Matches(out, rows[i], subset) : out[k] = rows[i]
    /\ LET unique == DOMAIN rows \ Shared(rows, subset)
           positions == SelectSeq([i \in 1..Len(rows) |-> i], LAMBDA i : i \in unique)
           kept == SelectSeq(out, LAMBDA r : \E i \in unique :
                                               \A f \in subset : r[f] = rows[i][f])
       IN  kept = [k \in 1..Len(positions) |-> rows[positions[k]]]

\* C3 as stated: of the rows of the concatenation with one university_name
\* the Universities sheet has exactly one row with that name, equal in every
\* column to the latest of them, and the rows whose name no other row has are
\* in the sheet unchanged.
C3_EqualInEveryColumn ==
    pc = "done" => AsStated(artifact.unis, ConcatUniversities, {"university_name"})

\* C3 (universities, the last one wins): the Universities sheet is, in the
\* order of the concatenation, the latest row of each university_name in it
\* (a missing name counting as a name) and no other row, each with
\* 'Not Available' in the cells that were missing.
C3_LastWriteWins ==
    pc = "done" =>
        IsSelection(artifact.unis, ConcatUniversities,
                    LatestOfGroup(ConcatUniversities, {"university_name"}))

\* a run wrote after it read a workbook: a name of the workbook came again
\* in the batch, and a row of the workbook whose name did not come again had
\* a missing cell
C3_Witness ==
    /\ pc = "done"
    /\ readResult = "ok"
    /\ \E i \in 1..Len(prior.unis) :
          i \in Shared(ConcatUniversities, {"university_name"})
    /\ \E i \in 1..Len(prior.unis) :
          /\ i \notin Shared(ConcatUniversities, {"university_name"})
          /\ \E f \in DOMAIN ConcatUniversities[i] : ConcatUniversities[i][f] = NaN

CourseKey == {"course_name", "university_id"}

\* C4 as stated: of the rows of the concatenation with one pair (course_name,
\* university_id) the Courses sheet has exactly one row with that pair, equal
\* in every column to the latest of them, and the rows whose pair no other
\* row has are all in the sheet, unchanged and in their order.
C4_EqualInEveryColumn ==
    pc = "done" => AsStated(artifact.courses, ConcatCourses, CourseKey)

\* C4 (courses, the last one wins): the Courses sheet is, in the order of the
\* concatenation, the latest row of each pair (course_name, university_id) in
\* it and no other row, each with 'Not Available' in the cells that were
\* missing; so the rows whose pair no other row has are all in the sheet, in
\* their order.
C4_LastWriteWins ==
    pc = "done" =>
        IsSelection(artifact.courses, ConcatCourses, LatestOfGroup(ConcatCourses, CourseKey))

\* a run wrote after it read a workbook, and a pair of a row of the workbook
\* came again in the batch, with another course_id
C4_Witness ==
    /\ pc = "done"
    /\ readResult = "ok"
    /\ \E i \in 1..Len(prior.courses) :
       \E j \in (Len(prior.courses) + 1)..Len(ConcatCourses) :
          /\ \A f \in CourseKey : ConcatCourses[i][f] = ConcatCourses[j][f]
          /\ ConcatCourses[i].course_id # ConcatCourses[j].course_id

\* the rows with one of the ids in the university_id column
InstitutionRows(rows, ids) == SelectSeq(rows, LAMBDA r : r.university_id \in ids)

CourseNames(rows) == {rows[k].course_name : k \in DOMAIN rows}

\* the university_id the workbook has for the university named as target t
\* is on its reference page
OldIds(t) ==
    {prior.unis[j].university_id :
        j \in {l \in DOMAIN prior.unis : prior.unis[l].university_name = UniNames[t]}}

\* the courses of target t in the batch
NewBlock(t) == SubSeq(courses_data, BatchSize * (t - 1) + 1, BatchSize * t)

\* C5 (a re-run merges): when the workbook a run reads has 5 courses of an
\* institution, the run scrapes 5 courses of it, and exactly one course_name
\* is in both, the Courses sheet the run writes has 9 rows of that
\* institution.
C5_NineRows ==
    (pc = "done" /\ readResult = "ok") =>
        \A t \in 1..NumTargets :
            LET old == InstitutionRows(read_excel(prior.courses), OldIds(t))
                new == NewBlock(t)
                both == OldIds(t) \cup {universities_data[t].university_id}
            IN  ( /\ Len(old) = 5
                  /\ Cardinality(CourseNames(old)) = 5
                  /\ Cardinality(CourseNames(new)) = 5
                  /\ Cardinality(CourseNames(old) \cap CourseNames(new)) = 1 )
                => Len(InstitutionRows(artifact.courses, both)) = 9

\* no value is twice in the column
IsUnique(rows, column) ==
    \A i, j \in DOMAIN rows : rows[i][column] = rows[j][column] => i = j

\* C6 (ids are unique): no two rows of the Universities sheet have one
\* university_id and no two rows of the Courses sheet have one course_id.
C6_UniqueIds ==
    /\ IsUnique(artifact.unis, "university_id")
    /\ IsUnique(artifact.courses, "course_id")

\* C7 (a failure stays with its fetch): whichever reference pages, listing
\* pages and course pages cannot be fetched, the loop takes the five targets in
\* the order of the list, each adds one university row and 5 course rows with
\* that university's id to the batch, and the merge and the write come after
\* the fifth.
C7_FailureIsolation ==
    /\ pc = "loop" => idx \in 1..NumTargets
    /\ pc \in {"merge", "done"} => idx = NumTargets + 1
    /\ pc = "done" => writes = 1 /\ artifact.exists
    /\ pc \in {"loop", "merge", "done"} =>
        /\ Len(universities_data) = idx - 1
        /\ Len(courses_data) = 5 * (idx - 1)
        /\ \A t \in 1..(idx - 1) :
              /\ universities_data[t].university_id = Token(runs, t, 0)
              /\ \A k \in 1..5 :
                    /\ courses_data[5 * (t - 1) + k].university_id = Token(runs, t, 0)
                    /\ courses_data[5 * (t - 1) + k].course_id = Token(runs, t, k)

\* a run has written after the reference page of one target, every page of
\* the site of another and the course pages of a third could not be fetched
C7_Witness ==
    /\ pc = "done"
    /\ \E t \in 1..NumTargets : universities_data[t] = UniRow(Token(runs, t, 0), <<>>)
    /\ \E t \in 1..NumTargets :
          /\ universities_data[t].university_name = UniNames[t]
          /\ \A k \in 1..5 :
                NewBlock(t)[k].course_name = Placeholder(Label(targets[t].fetch_courses), k)["Course Name"]
    /\ \E t \in 1..NumTargets :
          /\ universities_data[t].university_name = UniNames[t]
          /\ SiteResults[t]["nopages"] # SiteResults[t]["same"]
          /\ SiteResults[t]["nopages"] # SiteResults[t]["fail"]
          /\ NewBlock(t) = NewCourseRows(Token(runs, t, 0), SiteResults[t]["nopages"],
                                         [k \in 1..5 |-> Token(runs, t, k)])

----------------------------------------------------------------------------
(* verify.py: the workbook is a function from the names of its sheets to     *)
(* their rows; a workbook that cannot be opened has no sheet.                *)

NoBook == <<>>

Book(unis, courses) == ("Universities" :> unis) @@ ("Courses" :> courses)

expected_uni_cols == {"university_id", "university_name", "country", "city", "website"}

expected_course_cols == {"course_id", "university_id", "course_name", "level",
                         "discipline", "duration", "fees", "eligibility"}

\* df.columns: the header row of the sheet
Columns(rows) == IF Len(rows) = 0 THEN {} ELSE DOMAIN rows[1]

\* df[column].is_unique
is_unique(rows, column) ==
    \A i, j \in DOMAIN rows : rows[i][column] = rows[j][column] => i = j

\* df.duplicated().sum(): the rows equal in every column to an earlier row
duplicated_sum(rows) ==
    Cardinality({j \in DOMAIN rows : \E i \in 1..(j - 1) : rows[i] = rows[j]})

\* df_courses[~df_courses['university_id'].isin(valid_uni_ids)]
invalid_relations(df_uni, df_courses) ==
    SelectSeq(df_courses, LAMBDA c :
        \A j \in DOMAIN df_uni : df_uni[j].university_id # c.university_id)

Passed == [exit |-> 0, printed |-> "All data verification checks passed successfully!"]

\* the except branch: the message is printed and the process exits with 1
Failed(message) == [exit |-> 1, printed |-> "Verification Failed: " \o message]

\* the checks after the two sheets were read, in the order of lines 13-31; an
\* absent column raises KeyError where it is first subscripted
VerifyFrames(df_uni, df_courses, relations) ==
    IF "university_id" \notin Columns(df_uni) THEN Failed("'university_id'")
    ELSE IF ~is_unique(df_uni, "university_id") THEN Failed("university_id is not unique")
    ELSE IF "course_id" \notin Columns(df_courses) THEN Failed("'course_id'")
    ELSE IF ~is_unique(df_courses, "course_id") THEN Failed("course_id is not unique")
    ELSE IF duplicated_sum(df_uni) # 0 THEN Failed("Duplicate entries in Universities")
    ELSE IF duplicated_sum(df_courses) # 0 THEN Failed("Duplicate entries in Courses")
    ELSE IF ~(expected_uni_cols \subseteq Columns(df_uni))
         THEN Failed("Missing col in Universities")
    ELSE IF ~(expected_course_cols \subseteq Columns(df_courses))
         THEN Failed("Missing col in Courses")
    ELSE IF relations /\ Len(invalid_relations(df_uni, df_courses)) # 0
         THEN Failed("Relational integrity failed in Courses")
    ELSE Passed

VerifyBook(book, relations) ==
    IF DOMAIN book = {} THEN Failed("No such file or directory")
    ELSE IF "Universities" \notin DOMAIN book THEN Failed("Missing Universities sheet")
    ELSE IF "Courses" \notin DOMAIN book THEN Failed("Missing Courses sheet")
    ELSE VerifyFrames(read_excel(book["Universities"]), read_excel(book["Courses"]),
                      relations)

\* verify_data without the check of lines 28-31
verify_data_without_relations(book) == VerifyBook(book, FALSE)

verify_data(book) == VerifyBook(book, TRUE)

\* what a run of main over the usual web adds to its batch
UsualUniversities(r) ==
    [t \in 1..NumTargets |-> UniRow(Token(r, t, 0), WikiResults[t]["ok"])]

UsualCourses(r) ==
    [i \in 1..(BatchSize * NumTargets) |->
        LET t == ((i - 1) \div BatchSize) + 1
            k == ((i - 1) % BatchSize) + 1
        IN  CourseRow(Token(r, t, k), Token(r, t, 0), SiteResults[t]["same"][k])]

\* the workbook after one run of main, and after a second run that read it
FirstBook ==
    Book(MergedUniversities(UsualUniversities(1)), MergedCourses(UsualCourses(1)))

SecondBook ==
    Book(MergedUniversities(read_excel(FirstBook["Universities"]) \o UsualUniversities(2)),
         MergedCourses(read_excel(FirstBook["Courses"]) \o UsualCourses(2)))

\* edits of a workbook between the run that wrote it and the verification
DropSheet(book, sheet) == [s \in DOMAIN book \ {sheet} |-> book[s]]

DropColumn(book, sheet, column) ==
    [book EXCEPT ![sheet] =
        [j \in DOMAIN book[sheet] |->
            [f \in DOMAIN book[sheet][j] \ {column} |-> book[sheet][j][f]]]]

RepeatRow(book, sheet, i) == [book EXCEPT ![sheet] = Append(@, @[i])]

SetCell(book, sheet, i, column, value) ==
    [book EXCEPT ![sheet] = [@ EXCEPT ![i] = [f \in DOMAIN @ |->
                                                  IF f = column THEN value ELSE @[f]]]]

Edits(book) ==
    {book}
    \cup {DropSheet(book, sheet) : sheet \in DOMAIN book}
    \cup {DropColumn(book, "Universities", column) : column \in expected_uni_cols}
    \cup {DropColumn(book, "Courses", column) : column \in expected_course_cols}
    \cup {RepeatRow(book, sheet, i) : sheet \in DOMAIN book, i \in 1..MaxEdited}
    \cup {SetCell(book, "Universities", i + 1, "university_id",
                  book["Universities"][1].university_id) : i \in 1..MaxEdited}
    \cup {SetCell(book, "Courses", i + 1, "course_id",
                  book["Courses"][1].course_id) : i \in 1..MaxEdited}
    \cup {SetCell(book, "Courses", i, "university_id", "0badc0de") : i \in 1..MaxEdited}
    \cup {SetCell(book, "Courses", i, "fees", "N/A") : i \in 1..MaxEdited}

Books == {NoBook} \cup Edits(FirstBook) \cup Edits(SecondBook)

\* python verify.py on a workbook
RunVerify ==
    /\ probe.adapter = "none"
    /\ \E book \in Books :
          probe' = [adapter |-> "verify_data", web |-> book, found |-> <<>>,
                    result |-> <<verify_data(book)>>]
    /\ UNCHANGED <<artifact, pc, idx, universities_data, courses_data, prior, readResult,
                   writes, runs, faultsLeft, kinds>>

\* python verify.py once more, the workbook being as it was
RunVerifyAgain ==
    /\ probe.adapter = "verify_data"
    /\ Len(probe.result) = 1
    /\ probe' = [probe EXCEPT !.result = Append(@, verify_data(probe.web))]
    /\ UNCHANGED <<artifact, pc, idx, universities_data, courses_data, prior, readResult,
                   writes, runs, faultsLeft, kinds>>

NextVerify == RunVerify \/ RunVerifyAgain

InitVerify == InitWith(0, {}, MaxRuns)
SpecVerify == InitVerify /\ [][NextVerify]_vars

\* one of the checks fails on the workbook: a sheet is missing, an id is not
\* unique, a row is equal in every column to another, an expected column is
\* missing, a course has a university_id that no university row has
SomeCheckFails(book) ==
    \/ ~({"Universities", "Courses"} \subseteq DOMAIN book)
    \/ LET df_uni == read_excel(book["Universities"])
           df_courses == read_excel(book["Courses"])
       IN  \/ ~(expected_uni_cols \subseteq Columns(df_uni))
           \/ ~(expected_course_cols \subseteq Columns(df_courses))
           \/ \E i, j \in DOMAIN df_uni :
                 i # j /\ df_uni[i].university_id = df_uni[j].university_id
           \/ \E i, j \in DOMAIN df_courses :
                 i # j /\ df_courses[i].course_id = df_courses[j].course_id
           \/ \E i, j \in DOMAIN df_uni : i # j /\ df_uni[i] = df_uni[j]
           \/ \E i, j \in DOMAIN df_courses : i # j /\ df_courses[i] = df_courses[j]
           \/ \E i \in DOMAIN df_courses :
                 df_courses[i].university_id
                    \notin {df_uni[j].university_id : j \in DOMAIN df_uni}

\* C11 (outcome of the verification): verify_data exits with 1, and has
\* printed why, exactly when one of the checks fails on the workbook, and
\* exits with 0 otherwise; run again on the workbook as it was, it gives the
\* same outcome.
C11_VerificationOutcome ==
    probe.adapter = "verify_data" =>
        /\ \A n \in DOMAIN probe.result :
              /\ probe.result[n].exit = (IF SomeCheckFails(probe.web) THEN 1 ELSE 0)
              /\ probe.result[n].exit = 1 =>
                    Len(probe.result[n].printed) > Len("Verification Failed: ")
        /\ \A n, o \in DOMAIN probe.result : probe.result[n] = probe.result[o]

\* the verification ran twice on the workbook of two runs of main, where only
\* the check of the university_id of the courses fails
C11_Witness ==
    /\ probe.adapter = "verify_data"
    /\ probe.web = SecondBook
    /\ Len(probe.result) = 2
    /\ probe.result[2] = Failed("Relational integrity failed in Courses")

----------------------------------------------------------------------------
(* The functions on their own *)

\* words course names are made of, some with a keyword of the table in them
NameWords == <<"Hotel", "MANAGEMENT", "Computer", "Science", "Data Science", "Fine Arts",
               "LAW", "Medical", "Medicine", "B.Pharm", "Mathematics", "History",
               "Physics", "of", "MBA">>

\* the names of up to n words
RECURSIVE NamesOf(_)
NamesOf(n) ==
    IF n = 0 THEN {""}
    ELSE LET shorter == NamesOf(n - 1)
         IN  shorter \cup {IF name = "" THEN NameWords[w] ELSE name \o " " \o NameWords[w] :
                              name \in shorter, w \in DOMAIN NameWords}

\* a name is classified; found holds the name, result the label returned
CallGuessDiscipline ==
    /\ probe.adapter = "none"
    /\ \E name \in NamesOf(MaxWords) :
          probe' = [adapter |-> "guess_discipline", web |-> <<>>, found |-> <<name>>,
                    result |-> <<guess_discipline(name)>>]
    /\ UNCHANGED <<artifact, pc, idx, universities_data, courses_data, prior, readResult,
                   writes, runs, faultsLeft, kinds>>

\* texts of headings: none, one too short, two of a length in 6..119 (one
\* with white space around it and a line break in it), one too long
HeadingTexts == <<"", "Home", "Computer Science BSc", " Law and\nSociety ",
                  "Undergraduate and postgraduate programmes of study offered by the faculties, schools and departments of this university.">>

\* the sequences of up to n heading texts
RECURSIVE HeadingsOf(_)
HeadingsOf(n) ==
    IF n = 0 THEN {<<>>}
    ELSE LET shorter == HeadingsOf(n - 1)
         IN  shorter \cup {Append(hs, HeadingTexts[w]) :
                              hs \in shorter, w \in DOMAIN HeadingTexts}

DocumentUrl == "https://www.ox.ac.uk/courses/course-listing/c1"

\* the webs with a document at the URL, and the web with none there
DocumentWebs ==
    {(DocumentUrl :> [EmptyPage EXCEPT !.h1 = h1, !.h2 = h2]) :
        h1 \in HeadingsOf(MaxHeadings), h2 \in HeadingsOf(MaxHeadings)}
    \cup {<<>>}

\* the document is fetched and its title is looked for; result is the value
\* returned
CallExtractCourseName ==
    /\ probe.adapter = "none"
    /\ \E web \in DocumentWebs :
          probe' = [adapter |-> "extract_course_name", web |-> web, found |-> <<>>,
                    result |-> <<extract_course_name(get_soup(web, DocumentUrl))>>]
    /\ UNCHANGED <<artifact, pc, idx, universities_data, courses_data, prior, readResult,
                   writes, runs, faultsLeft, kinds>>

NextFunctions == CallGuessDiscipline \/ CallExtractCourseName

InitFunctions == InitWith(0, {}, MaxRuns)
SpecFunctions == InitFunctions /\ [][NextFunctions]_vars

\* the places in the table of the keywords that occur in the name, whatever
\* the case of its letters
KeywordsIn(name) ==
    {k \in DOMAIN discipline_map : Contains(Lower(name), discipline_map[k][1])}

\* C12 (the classifier is total and follows the order of the table):
\* guess_discipline gives every name one label: that of the keyword listed first
\* in the table among those that occur in the name, whatever the case of the
\* letters, and 'General' exactly when none occurs.
C12_FirstKeywordWins ==
    probe.adapter = "guess_discipline" =>
        LET hits == KeywordsIn(probe.found[1])
        IN  /\ probe.result[1] \in {discipline_map[k][2] : k \in DOMAIN discipline_map}
                                   \cup {"General"}
            /\ (probe.result[1] = "General") <=> (hits = {})
            /\ hits # {} =>
                  probe.result[1] =
                     discipline_map[CHOOSE k \in hits : \A l \in hits : k <= l][2]

\* a name with 'hotel' and, in capitals, 'management' in it was given the label
\* of 'management', listed before 'hotel'
C12_Witness ==
    /\ probe.adapter = "guess_discipline"
    /\ probe.found = <<"Hotel MANAGEMENT">>
    /\ probe.result = <<"Management">>

----------------------------------------------------------------------------
(* The level of the records made from scanned texts (SpecAdapters)           *)

\* the keywords the adapter takes for a master's course
MasterKeywords(adapter) ==
    IF adapter = "jamia_hamdard" THEN <<"m.tech", "m.sc", "master", "mba", "ll.m">>
    ELSE <<"m.tech", "m.sc", "master", "mba">>

\* master, then PhD, then diploma, then bachelor
LevelByPrecedence(adapter, text_lower) ==
    IF AnyIn(MasterKeywords(adapter), text_lower) THEN "Master's"
    ELSE IF Contains(text_lower, "ph.d") THEN "Doctoral"
    ELSE IF Contains(text_lower, "diploma") THEN "Diploma"
    ELSE "Bachelor's"

\* the texts of the elements of the pages of a web
ScannedTexts(web) ==
    UNION {{Strip(web[u].tags[j].text) : j \in DOMAIN web[u].tags} : u \in DOMAIN web}

\* C13 (level of a scanned text): every record the JMI and the Jamia Hamdard
\* adapter make from a scanned text has the level Master's if the text has a
\* master keyword in it, else Doctoral if it has 'ph.d', else Diploma if it
\* has 'diploma', else Bachelor's.
C13_LevelPrecedence ==
    probe.adapter \in {"jmi", "jamia_hamdard"} =>
        \A k \in DOMAIN probe.found :
            probe.found[k]["Course Name"] \in ScannedTexts(probe.web) =>
                probe.found[k]["Level"] =
                    LevelByPrecedence(probe.adapter, Lower(probe.found[k]["Course Name"]))

\* the text of a heading as get_text(strip=True) and the replacement give it
HeadingText(h) == ReplaceNewlines(Strip(h))

\* the h1 and the h2 headings of a document whose text is not empty and has
\* 6 to 119 characters, the h1 headings first
TitleCandidates(soup) ==
    SelectSeq([k \in 1..(Len(soup.h1) + Len(soup.h2)) |->
                  HeadingText((soup.h1 \o soup.h2)[k])],
              LAMBDA text : text # "" /\ Len(text) >= 6 /\ Len(text) <= 119)

\* C14 (the title of a document): extract_course_name gives the text of the
\* first of the h1 and h2 headings of the document that is not empty and has 6
\* to 119 characters, and gives no title only when the document has no such
\* heading, also when the first h1 heading is empty or too short or too long
\* and a later one is not.
C14_FirstQualifyingHeading ==
    (probe.adapter = "extract_course_name" /\ DocumentUrl \in DOMAIN probe.web) =>
        LET candidates == TitleCandidates(probe.web[DocumentUrl])
        IN  IF Len(candidates) = 0 THEN probe.result[1] = NoSoup
            ELSE probe.result[1] = Text(candidates[1])

====
